---- MODULE Spec2Model ----
(***************************************************************************)
(* GlobalEdu Country Information API (src/main.py).                        *)
(*                                                                         *)
(* One GET /api/outline request: validate the country parameter, fetch the *)
(* Wikipedia page, extract the h1..h6 headings of the content region,      *)
(* render them as a Markdown outline, answer.                              *)
(*                                                                         *)
(* Text is a sequence of one-character strings, so that str.strip,         *)
(* str.replace and str.join are computed character by character.           *)
(* A parsed document (what BeautifulSoup hands to the code) is the         *)
(* pre-order sequence of its elements; each element carries its tag name,  *)
(* its id attribute, its nesting depth and the text that directly follows  *)
(* its start tag.                                                          *)
(***************************************************************************)
EXTENDS Integers, Sequences, FiniteSets, TLC

VARIABLES pc, country, url, upstream, html_content, headings,
          markdown_outline, status, detail, body, fetches, extracts, renders

vars == <<pc, country, url, upstream, html_content, headings,
          markdown_outline, status, detail, body, fetches, extracts, renders>>

----------------------------------------------------------------------------
(* Bounds of the model *)

\* largest number of elements of a fetched document
MaxNodes == 3

\* largest number of records handed directly to generate_markdown_outline
MaxRecs == 2

----------------------------------------------------------------------------
(* Python str operations *)

\* the element of a one-element set. Only({ F(v) : v \in {e} }) is F(e) with
\* e evaluated once and bound to v, as a Python assignment v = e does
Only(S) == CHOOSE r \in S : TRUE

Whitespace == {" ", "\n", "\t"}

RECURSIVE LStrip(_)
LStrip(s) ==
    IF s # <<>> /\ Head(s) \in Whitespace THEN LStrip(Tail(s)) ELSE s

RECURSIVE RStrip(_)
RStrip(s) ==
    IF s # <<>> /\ s[Len(s)] \in Whitespace
    THEN RStrip(SubSeq(s, 1, Len(s) - 1))
    ELSE s

\* str.strip()
Strip(s) == Only({ RStrip(v) : v \in { LStrip(s) } })

\* s[i:].startswith(old), i counted from 1
MatchAt(s, i, old) ==
    /\ i + Len(old) - 1 <= Len(s)
    /\ SubSeq(s, i, i + Len(old) - 1) = old

\* str.replace(old, new) for a non-empty old: one left-to-right pass over
\* the non-overlapping occurrences; the text produced is not scanned again
RECURSIVE ReplaceFrom(_, _, _, _)
ReplaceFrom(s, i, old, new) ==
    IF i > Len(s) THEN <<>>
    ELSE IF MatchAt(s, i, old)
         THEN new \o ReplaceFrom(s, i + Len(old), old, new)
         ELSE <<s[i]>> \o ReplaceFrom(s, i + 1, old, new)

Replace(s, old, new) == ReplaceFrom(s, 1, old, new)

\* sep.join(parts)
RECURSIVE Join(_, _)
Join(sep, parts) ==
    IF parts = <<>> THEN <<>>
    ELSE IF Len(parts) = 1 THEN parts[1]
    ELSE parts[1] \o sep \o Join(sep, Tail(parts))

\* c * n
RECURSIVE Repeat(_, _)
Repeat(c, n) == IF n <= 0 THEN <<>> ELSE <<c>> \o Repeat(c, n - 1)

\* int(c) for a decimal digit c
DigitValue(c) ==
    CASE c = "0" -> 0 [] c = "1" -> 1 [] c = "2" -> 2 [] c = "3" -> 3
      [] c = "4" -> 4 [] c = "5" -> 5 [] c = "6" -> 6 [] c = "7" -> 7
      [] c = "8" -> 8 [] c = "9" -> 9

----------------------------------------------------------------------------
(* String literals of the program *)

EditMarker == <<"[", "e", "d", "i", "t", "]">>

ContentsHeader == <<"#", " ", "C", "o", "n", "t", "e", "n", "t", "s", "\n">>

NoHeadingsText ==
    <<"N", "o", " ", "h", "e", "a", "d", "i", "n", "g", "s", " ",
      "f", "o", "u", "n", "d", ".">>

DivName == <<"d", "i", "v">>

ContentId == "mw-content-text"

HeadingNames ==
    { <<"h", "1">>, <<"h", "2">>, <<"h", "3">>,
      <<"h", "4">>, <<"h", "5">>, <<"h", "6">> }

----------------------------------------------------------------------------
(* Parsed documents *)

Node(name, id, string) == [name |-> name, id |-> id, string |-> string]

\* the kinds of element a fetched page is built from
NodePool ==
    { Node(DivName, ContentId, <<>>),
      Node(DivName, "edit", <<"[", "e", "d", "i", "t", "]">>),
      Node(<<"h", "1">>, "", <<"V", "a", "n", "u", "a", "t", "u">>),
      Node(<<"h", "2">>, "",
           <<" ", "H", "i", "s", "t", "o", "r", "y",
             "[", "e", "d", "i", "t", "]">>),
      Node(<<"h", "3">>, "", <<"R", "e", "f", "e", "r", "e", "n", "c", "e", "s">>),
      Node(<<"h", "4">>, "", <<"[", "e", "d", "i", "t", "]", "\n">>),
      Node(<<"h", "6">>, "",
           <<"[", "e", "d", "[", "e", "d", "i", "t", "]", "i", "t", "]">>) }

Placed(n, d) ==
    [name |-> n.name, id |-> n.id, string |-> n.string, depth |-> d]

\* the documents of n elements: an element is a child of the one before it,
\* or a later sibling of it or of one of its ancestors
Docs(n) ==
    { doc \in [1 .. n -> { Placed(kind, d) : kind \in NodePool, d \in 1 .. n }] :
        /\ n > 0 => doc[1].depth = 1
        /\ \A i \in 1 .. (n - 1) : doc[i + 1].depth <= doc[i].depth + 1 }

NoDoc == <<>>

\* the BeautifulSoup object itself: the root, above every element
Soup == 0

\* what find() answers when nothing matches
None == -1

DepthOf(doc, i) == IF i = Soup THEN 0 ELSE doc[i].depth

\* tag.descendants, in document order
Descendants(doc, i) ==
    { j \in (i + 1) .. Len(doc) :
        \A k \in (i + 1) .. j : doc[k].depth > DepthOf(doc, i) }

\* the elements of a set of positions, in document order
InOrder(S) ==
    [ k \in 1 .. Cardinality(S) |->
        CHOOSE x \in S : Cardinality({ y \in S : y <= x }) = k ]

\* a find() that takes the first div, whatever its id
FindContentAnyDiv(doc) ==
    LET hits == { i \in 1 .. Len(doc) : doc[i].name = DivName }
    IN  IF hits = {} THEN None
        ELSE CHOOSE i \in hits : \A j \in hits : i <= j

\* soup.find('div', {'id': 'mw-content-text'})
FindContent(doc) ==
    LET hits == { i \in Descendants(doc, Soup) :
                    doc[i].name = DivName /\ doc[i].id = ContentId }
    IN  IF hits = {} THEN None
        ELSE CHOOSE i \in hits : \A j \in hits : i <= j

\* content = find(...); if not content: content = soup
ContentScope(doc) ==
    LET content == FindContent(doc)
    IN  IF content = None THEN Soup ELSE content

\* content.find_all(['h1', ..., 'h6'])
FindAllHeadings(doc, content) ==
    InOrder({ i \in Descendants(doc, content) : doc[i].name \in HeadingNames })

\* heading.get_text(strip=True): every string of the element, each one
\* stripped, the empty ones skipped, joined without a separator
RECURSIVE JoinStripped(_, _, _)
JoinStripped(doc, positions, k) ==
    IF k > Len(positions) THEN <<>>
    ELSE Strip(doc[positions[k]].string) \o JoinStripped(doc, positions, k + 1)

GetText(doc, i) ==
    Only({ JoinStripped(doc, positions, 1) :
             positions \in { InOrder({i} \cup Descendants(doc, i)) } })

\* text.replace('[edit]', '').strip()
CleanText(text) ==
    Only({ Strip(replaced) : replaced \in { Replace(text, EditMarker, <<>>) } })

\* int(heading.name[1])
HeadingLevel(name) == DigitValue(name[2])

\* the body of the for loop, over the elements find_all returned
\* the section titles the specification's sanitizer would discard
Denylist ==
    { <<"c", "o", "n", "t", "e", "n", "t", "s">>,
      <<"n", "a", "v", "i", "g", "a", "t", "i", "o", "n">>,
      <<"r", "e", "f", "e", "r", "e", "n", "c", "e", "s">>,
      <<"s", "e", "e", " ", "a", "l", "s", "o">> }

UpperCase ==
    <<"A", "B", "C", "D", "E", "F", "G", "H", "I", "J", "K", "L", "M",
      "N", "O", "P", "Q", "R", "S", "T", "U", "V", "W", "X", "Y", "Z">>

LowerCase ==
    <<"a", "b", "c", "d", "e", "f", "g", "h", "i", "j", "k", "l", "m",
      "n", "o", "p", "q", "r", "s", "t", "u", "v", "w", "x", "y", "z">>

LowerChar(c) ==
    IF \E i \in 1 .. Len(UpperCase) : UpperCase[i] = c
    THEN LowerCase[CHOOSE i \in 1 .. Len(UpperCase) : UpperCase[i] = c]
    ELSE c

LowerText(t) == [ i \in 1 .. Len(t) |-> LowerChar(t[i]) ]

\* a loop body that also discards the titles of the denylist
LoopBodyWithDenylist(doc, heading, acc) ==
    LET level == HeadingLevel(doc[heading].name)
    IN  Only({ IF text # <<>> /\ LowerText(text) \notin Denylist
               THEN Append(acc, <<level, text>>)
               ELSE acc :
               text \in { CleanText(raw) : raw \in { GetText(doc, heading) } } })

\* a loop body that puts the new record in front of the earlier ones
LoopBodyPrepending(doc, heading, acc) ==
    LET level == HeadingLevel(doc[heading].name)
    IN  Only({ IF text # <<>> THEN <<<<level, text>>>> \o acc ELSE acc :
               text \in { CleanText(raw) : raw \in { GetText(doc, heading) } } })

LoopBody(doc, heading, acc) ==
    LET level == HeadingLevel(doc[heading].name)
    IN  Only({ IF text # <<>> THEN Append(acc, <<level, text>>) ELSE acc :
               text \in { CleanText(raw) : raw \in { GetText(doc, heading) } } })

RECURSIVE ExtractLoop(_, _, _, _)
ExtractLoop(doc, found, k, acc) ==
    IF k > Len(found) THEN acc
    ELSE Only({ ExtractLoop(doc, found, k + 1, appended) :
                  appended \in { LoopBody(doc, found[k], acc) } })

extract_headings(doc) ==
    Only({ ExtractLoop(doc, found, 1, <<>>) :
             found \in { FindAllHeadings(doc, ContentScope(doc)) } })

----------------------------------------------------------------------------
(* generate_markdown_outline *)

RenderLine(rec) == Repeat("#", rec[1]) \o <<" ">> \o rec[2]

RECURSIVE RenderLines(_)
RenderLines(hs) ==
    IF hs = <<>> THEN <<>>
    ELSE <<RenderLine(Head(hs))>> \o RenderLines(Tail(hs))

\* the blank-line separator of other renderers
BlankLineSeparator == <<"\n", "\n">>

LineSeparator == <<"\n">>

generate_markdown_outline(hs) ==
    IF hs = <<>> THEN NoHeadingsText
    ELSE Only({ Join(LineSeparator, markdown_lines) :
                  markdown_lines \in { <<ContentsHeader>> \o RenderLines(hs) } })

----------------------------------------------------------------------------
(* The request *)

Countries ==
    { <<>>, <<" ">>, <<" ", "\t">>,
      <<"N", "e", "w", " ", "Z", "e", "a", "l", "a", "n", "d">> }

\* status codes the upstream server answers with
SuccessCodes == {200}
ErrorCodes == {403, 404, 500, 503}

\* a validation that forgets strip()
IsBlankNoStrip(c) == c = <<>>

\* not country or not country.strip()
IsBlank(c) == c = <<>> \/ Strip(c) = <<>>

Init ==
    /\ pc = "validate"
    /\ country \in Countries
    /\ url = <<>>
    /\ upstream = 0
    /\ html_content = NoDoc
    /\ headings = <<>>
    /\ markdown_outline = <<>>
    /\ status = 0
    /\ detail = ""
    /\ body = <<>>
    /\ fetches = 0
    /\ extracts = 0
    /\ renders = 0

Fail(code, why) ==
    /\ status' = code
    /\ detail' = why
    /\ pc' = "done"

RejectEmpty ==
    /\ pc = "validate"
    /\ IsBlank(country)
    /\ Fail(400, "Country parameter cannot be empty")
    /\ UNCHANGED <<country, url, upstream, html_content, headings,
                   markdown_outline, body, fetches, extracts, renders>>

AcceptCountry ==
    /\ pc = "validate"
    /\ ~IsBlank(country)
    /\ pc' = "fetch"
    /\ UNCHANGED <<country, url, upstream, html_content, headings,
                   markdown_outline, status, detail, body, fetches,
                   extracts, renders>>

\* the request leaves: client.get(url)
SendGet ==
    /\ url' = Replace(country, <<" ">>, <<"_">>)
    /\ fetches' = fetches + 1

FetchSuccess ==
    /\ pc = "fetch"
    /\ SendGet
    /\ upstream' \in SuccessCodes
    /\ \E n \in 0 .. MaxNodes : html_content' \in Docs(n)
    /\ pc' = "extract"
    /\ UNCHANGED <<country, headings, markdown_outline, status, detail,
                   body, extracts, renders>>

\* an error mapping without the 404 branch
FetchStatusErrorAll500 ==
    /\ pc = "fetch"
    /\ SendGet
    /\ upstream' \in ErrorCodes
    /\ Fail(500, "Error fetching Wikipedia page")
    /\ UNCHANGED <<country, html_content, headings, markdown_outline, body,
                   extracts, renders>>

FetchStatusError ==
    /\ pc = "fetch"
    /\ SendGet
    /\ \E code \in ErrorCodes :
         /\ upstream' = code
         /\ IF code = 404
            THEN Fail(404, "Wikipedia page not found for country")
            ELSE Fail(500, "Error fetching Wikipedia page")
    /\ UNCHANGED <<country, html_content, headings, markdown_outline, body,
                   extracts, renders>>

\* a fetcher that tries once more after its first failure
FetchExceptionRetry ==
    /\ pc = "fetch"
    /\ SendGet
    /\ IF fetches < 1
       THEN pc' = "fetch" /\ UNCHANGED <<status, detail>>
       ELSE Fail(500, "Error fetching Wikipedia page")
    /\ UNCHANGED <<country, upstream, html_content, headings,
                   markdown_outline, body, extracts, renders>>

\* timeout, connection error, too many redirects: no response at all
FetchException ==
    /\ pc = "fetch"
    /\ SendGet
    /\ Fail(500, "Error fetching Wikipedia page")
    /\ UNCHANGED <<country, upstream, html_content, headings,
                   markdown_outline, body, extracts, renders>>

Extract ==
    /\ pc = "extract"
    /\ headings' = extract_headings(html_content)
    /\ extracts' = extracts + 1
    /\ pc' = "check"
    /\ UNCHANGED <<country, url, upstream, html_content, markdown_outline,
                   status, detail, body, fetches, renders>>

NoHeadings ==
    /\ pc = "check"
    /\ headings = <<>>
    /\ Fail(404, "No headings found for country")
    /\ UNCHANGED <<country, url, upstream, html_content, headings,
                   markdown_outline, body, fetches, extracts, renders>>

\* a handler that renders without looking at the list
HaveHeadingsUnchecked ==
    /\ pc = "check"
    /\ pc' = "render"
    /\ UNCHANGED <<country, url, upstream, html_content, headings,
                   markdown_outline, status, detail, body, fetches,
                   extracts, renders>>

HaveHeadings ==
    /\ pc = "check"
    /\ headings # <<>>
    /\ pc' = "render"
    /\ UNCHANGED <<country, url, upstream, html_content, headings,
                   markdown_outline, status, detail, body, fetches,
                   extracts, renders>>

Render ==
    /\ pc = "render"
    /\ markdown_outline' = generate_markdown_outline(headings)
    /\ renders' = renders + 1
    /\ pc' = "respond"
    /\ UNCHANGED <<country, url, upstream, html_content, headings, status,
                   detail, body, fetches, extracts>>

Respond ==
    /\ pc = "respond"
    /\ status' = 200
    /\ body' = markdown_outline
    /\ pc' = "done"
    /\ UNCHANGED <<country, url, upstream, html_content, headings,
                   markdown_outline, detail, fetches, extracts, renders>>

Next ==
    \/ RejectEmpty
    \/ AcceptCountry
    \/ FetchSuccess
    \/ FetchStatusError
    \/ FetchException
    \/ Extract
    \/ NoHeadings
    \/ HaveHeadings
    \/ Render
    \/ Respond

Spec == Init /\ [][Next]_vars

\* the scheduler runs the handler to its end: every enabled step is taken
FairSpec == Spec /\ WF_vars(Next)

----------------------------------------------------------------------------
(* generate_markdown_outline called on its own, on any list of records *)

Levels == 1 .. 6

RenderTexts ==
    { <<"H", "i", "s", "t", "o", "r", "y">>,
      <<"S", "e", "e", " ", "a", "l", "s", "o">>,
      <<"N", "e", "w", "\n", "Z", "e", "a", "l", "a", "n", "d">> }

Records == { <<l, t>> : l \in Levels, t \in RenderTexts }

RecordSeqs == UNION { [1 .. n -> Records] : n \in 0 .. MaxRecs }

RenderInit ==
    /\ pc = "render"
    /\ headings \in RecordSeqs
    /\ country = <<>>
    /\ url = <<>>
    /\ upstream = 0
    /\ html_content = NoDoc
    /\ markdown_outline = <<>>
    /\ status = 0
    /\ detail = ""
    /\ body = <<>>
    /\ fetches = 0
    /\ extracts = 0
    /\ renders = 0

RenderSpec == RenderInit /\ [][Render]_vars

----------------------------------------------------------------------------
(* Vocabulary of the properties *)

\* extract_headings has returned for the fetched page
Extracted == extracts = 1

HeadingPositions(doc) ==
    { i \in 1 .. Len(doc) : doc[i].name \in HeadingNames }

\* the heading elements of the region extract_headings works on
ScopedHeadings(doc) ==
    HeadingPositions(doc) \cap Descendants(doc, ContentScope(doc))

CleanedText(doc, i) == CleanText(GetText(doc, i))

\* how many elements of S are at or before position i
Rank(S, i) == Cardinality({ j \in S : j <= i })

LevelDigits == <<"1", "2", "3", "4", "5", "6">>

\* the enclosing element of element j (the root when it has none)
ParentOf(doc, j) ==
    LET above == { k \in 1 .. (j - 1) : doc[k].depth = doc[j].depth - 1 }
    IN  IF above = {} THEN Soup
        ELSE CHOOSE k \in above : \A m \in above : m <= k

RECURSIVE AncestorsOf(_, _)
AncestorsOf(doc, j) ==
    IF j = Soup THEN {}
    ELSE LET parent == ParentOf(doc, j)
         IN  IF parent = Soup THEN {} ELSE {parent} \cup AncestorsOf(doc, parent)

Containers(doc) ==
    { k \in 1 .. Len(doc) : doc[k].name = DivName /\ doc[k].id = ContentId }

\* the content region: inside the first content container, or everything
Region(doc) ==
    IF Containers(doc) = {} THEN 1 .. Len(doc)
    ELSE LET first == CHOOSE k \in Containers(doc) :
                        \A m \in Containers(doc) : k <= m
         IN  { j \in 1 .. Len(doc) : first \in AncestorsOf(doc, j) }

\* str.split("\n")
RECURSIVE SplitFrom(_, _, _)
SplitFrom(s, i, line) ==
    IF i > Len(s) THEN <<line>>
    ELSE IF s[i] = "\n" THEN <<line>> \o SplitFrom(s, i + 1, <<>>)
    ELSE SplitFrom(s, i + 1, Append(line, s[i]))

SplitLines(s) == SplitFrom(s, 1, <<>>)

HasLineBreak(t) == \E i \in 1 .. Len(t) : t[i] = "\n"

\* line is rec's level times '#', one space, rec's text
IsRecordLine(line, rec) ==
    /\ Len(line) = rec[1] + 1 + Len(rec[2])
    /\ \A i \in 1 .. rec[1] : line[i] = "#"
    /\ line[rec[1] + 1] = " "
    /\ \A i \in 1 .. Len(rec[2]) : line[rec[1] + 1 + i] = rec[2][i]

\* rec's level times '#', one space, rec's text
RecordText(rec) ==
    [ i \in 1 .. (rec[1] + 1 + Len(rec[2])) |->
        IF i <= rec[1] THEN "#"
        ELSE IF i = rec[1] + 1 THEN " "
        ELSE rec[2][i - rec[1] - 1] ]

ContainsMarker(t) ==
    \E i \in 1 .. (Len(t) - 5) :
        SubSeq(t, i, i + 5) = <<"[", "e", "d", "i", "t", "]">>

OnlyWhitespace(c) == \A i \in 1 .. Len(c) : c[i] \in {" ", "\t", "\n"}

\* generate_markdown_outline has returned
Rendered == renders = 1 /\ pc \in {"respond", "done"}

----------------------------------------------------------------------------
(* C1: extract_headings returns the surviving h1..h6 elements of the       *)
(* scoped region in document order, one record each, with the level equal  *)
(* to the digit of the tag; N elements none of which is filtered give N    *)
(* records.                                                                *)
C1_DocumentOrder ==
    Extracted =>
        LET doc  == html_content
            all  == ScopedHeadings(doc)
            kept == { i \in all : CleanedText(doc, i) # <<>> }
        IN  /\ Len(headings) = Cardinality(kept)
            /\ \A i \in kept :
                 LET rec == headings[Rank(kept, i)]
                 IN  /\ rec[1] \in 1 .. 6
                     /\ doc[i].name = <<"h", LevelDigits[rec[1]]>>
                     /\ rec[2] = CleanedText(doc, i)
            /\ kept = all => Len(headings) = Cardinality(all)

C1_Witness ==
    /\ Extracted
    /\ Cardinality(ScopedHeadings(html_content)) = 3
    /\ Len(headings) = 2
    /\ headings[1][1] = 2
    /\ headings[2][1] = 1

C3_OneLinePerRecord ==
    (Rendered /\ headings # <<>>) =>
        LET lines == SplitLines(markdown_outline)
        IN  /\ Len(lines) = Len(headings) + 2
            /\ lines[1] = <<"#", " ", "C", "o", "n", "t", "e", "n", "t", "s">>
            /\ lines[2] = <<>>
            /\ \A k \in 1 .. Len(headings) : IsRecordLine(lines[k + 2], headings[k])

(* C3 as amended: the same, for every non-empty list of records whose      *)
(* texts hold no line break. In general the result is "# Contents", an     *)
(* empty line, then for each record in order level times '#', a space and  *)
(* the text copied as it is, so that a text holding line breaks spreads    *)
(* its record over several lines.                                          *)
C3_OneLinePerRecordNoBreak ==
    (Rendered /\ headings # <<>>) =>
        LET lines == SplitLines(markdown_outline)
            RECURSIVE Expected(_)
            Expected(k) ==
                IF k > Len(headings) THEN <<>>
                ELSE SplitLines(RecordText(headings[k])) \o Expected(k + 1)
        IN  /\ lines =
                 << <<"#", " ", "C", "o", "n", "t", "e", "n", "t", "s">>, <<>> >>
                   \o Expected(1)
            /\ (\A k \in 1 .. Len(headings) : ~HasLineBreak(headings[k][2])) =>
                 /\ Len(lines) = Len(headings) + 2
                 /\ \A k \in 1 .. Len(headings) :
                      IsRecordLine(lines[k + 2], headings[k])

C3_Witness ==
    /\ Rendered
    /\ headings = << <<3, <<"H", "i", "s", "t", "o", "r", "y">>>> >>
    /\ markdown_outline =
         <<"#", " ", "C", "o", "n", "t", "e", "n", "t", "s", "\n", "\n",
           "#", "#", "#", " ", "H", "i", "s", "t", "o", "r", "y">>

(* C4: the text of every returned record is non-empty, has no leading or   *)
(* trailing whitespace and holds no occurrence of "[edit]".                *)
C4_MarkerRemoved ==
    Extracted =>
        \A k \in 1 .. Len(headings) :
            LET text == headings[k][2]
            IN  /\ text # <<>>
                /\ ~OnlyWhitespace(<<text[1]>>)
                /\ ~OnlyWhitespace(<<text[Len(text)]>>)
                /\ ~ContainsMarker(text)

(* C5: the sanitizing step is idempotent: applied to its own output it     *)
(* gives the same text, and the same keep-or-drop decision, as applied     *)
(* once.                                                                   *)
C5_SanitizerIdempotent ==
    Extracted =>
        \A i \in HeadingPositions(html_content) :
            LET once  == CleanText(GetText(html_content, i))
                twice == CleanText(once)
            IN  /\ twice = once
                /\ (twice = <<>>) <=> (once = <<>>)

(* C6: a country that is empty or only whitespace ends in a 400, and       *)
(* neither the fetch nor extract_headings nor generate_markdown_outline    *)
(* is ever called for it.                                                  *)
C6_BlankRejected ==
    OnlyWhitespace(country) =>
        /\ pc \in {"validate", "done"}
        /\ pc = "done" => status = 400
        /\ fetches = 0
        /\ extracts = 0
        /\ renders = 0
        /\ body = <<>>

C6_Witness ==
    /\ country = <<" ", "\t">>
    /\ pc = "done"
    /\ status = 400

\* the fetch was made and did not get a 2xx answer (0: no answer at all)
FetchFailed == fetches >= 1 /\ upstream \notin 200 .. 299

(* C7: an upstream 404 ends the request with 404, any other fetch failure  *)
(* with a 5xx; extract_headings and generate_markdown_outline are not      *)
(* called and no outline is returned.                                      *)
C7_FetchFailureMapped ==
    FetchFailed =>
        /\ pc = "done"
        /\ upstream = 404 => status = 404
        /\ upstream # 404 => status \in 500 .. 599
        /\ extracts = 0
        /\ renders = 0
        /\ headings = <<>>
        /\ markdown_outline = <<>>
        /\ body = <<>>

C7_Witness ==
    /\ pc = "done"
    /\ fetches = 1
    /\ upstream = 404
    /\ status = 404

(* C8: with a content container in the document, only the headings inside  *)
(* it are emitted; without one, the headings of the whole document; the    *)
(* scope is never missing.                                                 *)
C8_ContentScoped ==
    Extracted =>
        LET doc    == html_content
            inside == { j \in Region(doc) \cap HeadingPositions(doc) :
                          CleanedText(doc, j) # <<>> }
        IN  /\ ContentScope(doc) # None
            /\ \A k \in 1 .. Len(headings) :
                 \E j \in inside :
                    /\ headings[k][2] = CleanedText(doc, j)
                    /\ doc[j].name = <<"h", LevelDigits[headings[k][1]]>>
            /\ Len(headings) = Cardinality(inside)

C8_Witness ==
    /\ Extracted
    /\ Containers(html_content) # {}
    /\ Len(headings) = 1
    /\ \E j \in HeadingPositions(html_content) \ Region(html_content) :
         CleanedText(html_content, j) # <<>>

(* C9: a fetched page without headings ends in the 404 "No headings        *)
(* found" error; a 200 body holds at least one heading line after the      *)
(* "# Contents" header and is never the text "No headings found.".         *)
C9_NoHeadingsIs404 ==
    /\ (Extracted /\ headings = <<>>) =>
         /\ pc \in {"check", "done"}
         /\ renders = 0
         /\ pc = "done" =>
              /\ status = 404
              /\ detail = "No headings found for country"
              /\ body = <<>>
    /\ status = 200 =>
         /\ body # NoHeadingsText
         /\ Len(headings) >= 1
         /\ Len(SplitLines(body)) >= 3
         /\ SplitLines(body)[1] = <<"#", " ", "C", "o", "n", "t", "e", "n", "t", "s">>
         /\ IsRecordLine(SplitLines(body)[3], headings[1])

C9_Witness ==
    /\ pc = "done"
    /\ Extracted
    /\ headings = <<>>
    /\ status = 404

(* C10: every request ends, in one outcome among 400, 404, 5xx and 200     *)
(* with an outline; it makes at most one fetch, takes no step after its    *)
(* outcome, and a failure carries no outline.                              *)
C10_OneOutcome ==
    /\ <>(pc = "done")
    /\ [](fetches <= 1)
    /\ [](pc = "done" =>
            /\ status \in {200, 400, 404, 500}
            /\ (status = 200) <=> (body # <<>>)
            /\ status # 200 => renders = 0)
    /\ [](pc # "done" => status = 0 /\ body = <<>>)
    /\ [][pc # "done"]_vars

C10_Witness ==
    /\ pc = "done"
    /\ status = 500
    /\ fetches = 1
    /\ upstream = 0

====
